---- MODULE Spec2Model ----
(***************************************************************************)
(* Model of src/src/args_handle.rs: the daemon control commands            *)
(* (serve_start, serve_stop, serve_restart, serve_status), the foreground  *)
(* serve with its configuration resolution, and generate_template.         *)
(*                                                                         *)
(* Every command-line invocation is an operating-system process of its     *)
(* own; the invocations share the pid file, the two redirect files and the *)
(* process table.  Each invocation is modelled step by step, one step per  *)
(* system call (or library call) that reads or writes shared state.        *)
(***************************************************************************)
EXTENDS Integers, Sequences, FiniteSets, TLC

VARIABLES
    pidFile,    \* env::PID_PATH: [exists, content, mode]
    outFile,    \* env::DEFAULT_STDOUT_PATH
    errFile,    \* env::DEFAULT_STDERR_PATH
    daemon,     \* the detached children: what each pid is doing, and with which arguments
    pending,    \* pids with a delivered, not yet handled SIGINT
    inv,        \* the command-line invocation running in each slot
    last,       \* the most recent invocation that returned to its caller
    nInv,       \* number of invocations begun so far
    fs,         \* the directory tree generate_template and serve work in
    fg,         \* the foreground command (serve, generate_template) being run
    nRuns,      \* number of foreground commands begun so far
    log         \* serve_log: the log it reads and how far it has got

\* the state of the daemon control commands
ctlVars == <<pidFile, outFile, errFile, daemon, pending, inv, last, nInv>>

\* the state of the foreground commands
fgVars == <<fs, fg, nRuns, log>>

vars == <<pidFile, outFile, errFile, daemon, pending, inv, last, nInv, fs, fg, nRuns, log>>

-----------------------------------------------------------------------------
(* Bounds of the model.                                                    *)

\* number of command-line invocations in one behaviour
MaxInvocations == 3

\* invocation slots: at most two invocations overlap
Procs == {"p1", "p2"}

\* the slot of the invocations a single shell runs one after another
Shell == "p1"

\* operating-system pids handed out to processes
Pids == {7, 12}

\* number of foreground commands in one behaviour
MaxRuns == 2

-----------------------------------------------------------------------------
(* Text: file contents are sequences of one-character strings.             *)

Digits == <<"0", "1", "2", "3", "4", "5", "6", "7", "8", "9">>

IsDigit(c) == \E i \in 1..10 : Digits[i] = c

DigitVal(c) == (CHOOSE i \in 1..10 : Digits[i] = c) - 1

\* i32::MAX, the largest value str::parse::<i32> accepts
I32Max == 2147483647

RECURSIVE ToDec(_)
\* Display of a non-negative integer: its decimal digits
ToDec(n) ==
    IF n < 10 THEN <<Digits[n + 1]>>
    ELSE ToDec(n \div 10) \o <<Digits[(n % 10) + 1]>>

RECURSIVE DecValue(_, _)
\* value of a digit string, accumulated left to right
DecValue(s, acc) ==
    IF s = <<>> THEN acc
    ELSE DecValue(Tail(s), acc * 10 + DigitVal(Head(s)))

\* str::parse::<i32>: optional sign, then one or more digits, in range
ParseI32(s) ==
    LET signed == s # <<>> /\ Head(s) \in {"+", "-"}
        body   == IF signed THEN Tail(s) ELSE s
        neg    == signed /\ Head(s) = "-"
        wellFormed == body # <<>> /\ \A i \in 1..Len(body) : IsDigit(body[i])
        mag    == IF wellFormed THEN DecValue(body, 0) ELSE 0
        inRange == IF neg THEN mag <= I32Max + 1 ELSE mag <= I32Max
    IN  IF wellFormed /\ inRange
        THEN [ok |-> TRUE, v |-> IF neg THEN 0 - mag ELSE mag]
        ELSE [ok |-> FALSE, v |-> 0]

-----------------------------------------------------------------------------
(* Files.                                                                  *)

\* a file: whether it exists, its content, its mode, and the pid of the
\* detached child whose daemonize locked it (0: never locked).  The lock is
\* held for as long as that child lives
NoFile == [exists |-> FALSE, content |-> <<>>, mode |-> "none", locker |-> 0]

\* Permissions::from_mode(0o755)
Mode0755 == "0o755"

\* File::create: creates the file with the process's default mode, or
\* truncates an existing file and keeps its mode
FileCreate(f) ==
    [exists |-> TRUE, content |-> <<>>,
     mode |-> IF f.exists THEN f.mode ELSE "default",
     locker |-> IF f.exists THEN f.locker ELSE 0]

\* File::set_permissions
SetPermissions(f, m) == [f EXCEPT !.mode = m]

\* what daemonize does to the pid file: opens or creates it, locks it and
\* writes the pid of the detached child
WritePid(f, pid) ==
    [exists |-> TRUE, content |-> ToDec(pid),
     mode |-> IF f.exists THEN f.mode ELSE "default",
     locker |-> pid]

\* contents of the pid file an invocation may find: absent, left empty by a
\* start that stopped early, a pid (live or stale), or foreign text
InitPidContents == {<<>>, <<"7", "x">>} \cup {ToDec(p) : p \in Pids}

\* what the pid file holds: nothing, text that parses as an i32, other text
PidKind(f) ==
    IF ~f.exists THEN "absent"
    ELSE IF ParseI32(f.content).ok THEN "int" ELSE "corrupt"

-----------------------------------------------------------------------------
(* Invocations.                                                            *)

NoneStr == [some |-> FALSE, v |-> <<>>]

Some(s) == [some |-> TRUE, v |-> s]

NoSig == [sent |-> FALSE, pid |-> 0, ok |-> FALSE]

NoPrev == [cmd |-> "none", res |-> "none", preKind |-> "absent", postExists |-> FALSE]

NoPath == [some |-> FALSE, abs |-> FALSE, p |-> <<>>]

RelPath(name) == [some |-> TRUE, abs |-> FALSE, p |-> name]

NoText == [some |-> FALSE, v |-> <<>>]

NoInt == [some |-> FALSE, v |-> 0]

\* ServeArgs with no option given
NoArgs ==
    [config |-> NoPath, host |-> NoText, port |-> NoInt,
     tls_cert |-> NoPath, tls_key |-> NoPath,
     workers |-> NoInt, tb_store_strategy |-> NoText,
     tb_capacity |-> NoInt, tb_fill_rate |-> NoInt, tb_expired |-> NoInt]

\* the ServeArgs the daemon commands are run with
ArgsSet == {NoArgs, [NoArgs EXCEPT !.config = RelPath(<<"serve.toml">>)]}

IdleRec ==
    [pc |-> "idle", cmd |-> "none", root |-> FALSE, args |-> NoArgs, args0 |-> NoArgs,
     pidv |-> NoneStr, msgs |-> {}, sig |-> NoSig,
     preKind |-> "absent", postExists |-> FALSE, prev |-> NoPrev, res |-> "none",
     createFailed |-> "none", stopRet |-> "none", startRan |-> FALSE,
     rm |-> "none", dropUser |-> FALSE, detachTried |-> FALSE, detached |-> FALSE,
     launched |-> FALSE, child |-> 0, raced |-> FALSE, sudoUser |-> "none"]

\* an invocation that has not yet returned to the shell that started it
IsCli(r) == r.pc # "idle"

\* no process has this pid; end tells how the last detached child that had
\* it came to its end
NoDaemon == [st |-> "none", args |-> NoArgs, end |-> "none"]

Ended(why) == [NoDaemon EXCEPT !.end = why]

\* the pids of the live detached children
alive == {pid \in Pids : daemon[pid].st # "none"}

\* the pid the system gives the next process: the lowest one free
FreshPids == {pid \in Pids \ alive : \A q \in Pids \ alive : pid <= q}

Summary(r) ==
    [cmd |-> r.cmd, res |-> r.res, preKind |-> r.preKind, postExists |-> r.postExists]

FirstPc(cmd) ==
    CASE cmd = "start"   -> "start_root"
      [] cmd = "stop"    -> "stop_root"
      [] cmd = "restart" -> "restart_root"
      [] cmd = "status"  -> "status"

\* the record of invocation r as it returns res to its caller, the pid file
\* being post at that moment; what only the process itself held is gone
Returned(r, res, post) ==
    [r EXCEPT !.pc = "done", !.res = res, !.postExists = post.exists,
              !.args = NoArgs, !.args0 = NoArgs, !.dropUser = FALSE,
              !.sudoUser = "none"]

-----------------------------------------------------------------------------
(* crate::env, as the commands use it.                                     *)

\* env::get_pid: the content of the pid file, None when there is no file
get_pid == IF pidFile.exists THEN Some(pidFile.content) ELSE NoneStr

\* env::check_root: passes for a caller with root privilege, and ends the
\* process otherwise
check_root(r) == r.root

\* env::fix_relative_path: makes the path arguments absolute
AbsPath(path) == [path EXCEPT !.abs = path.some]

fix_relative_path(args) ==
    [args EXCEPT !.config = AbsPath(@), !.tls_cert = AbsPath(@), !.tls_key = AbsPath(@)]

-----------------------------------------------------------------------------
(* serve: configuration resolution (lines 5-51).                           *)

\* a line of a configuration file: key = value with the value's TOML type,
\* a comment, or text that is no TOML
KV(k, t, s) == [k |-> k, t |-> t, s |-> s]

CommentLine == KV("", "comment", <<>>)

BadLine == KV("", "bad", <<>>)

Host0000 == <<"0", ".", "0", ".", "0", ".", "0">>

Host127 == <<"1", "2", "7", ".", "0", ".", "0", ".", "1">>

\* texts that parse as an IpAddr
ValidHosts == {Host0000, Host127}

\* u16::MAX, the largest port the port field deserializes to
U16Max == 65535

ValueLines(doc, k) == {i \in 1..Len(doc) : doc[i].k = k /\ doc[i].t \notin {"comment", "bad"}}

HasKey(doc, k) == ValueLines(doc, k) # {}

LineOf(doc, k) == doc[CHOOSE i \in ValueLines(doc, k) : TRUE]

\* the fields of ServeArgs, other than port, that hold an unsigned integer
IntKeys == {"workers", "tb_capacity", "tb_fill_rate", "tb_expired"}

\* whether the value given for field k has the type the field deserializes from
FieldOk(doc, k) ==
    IF ~HasKey(doc, k) THEN TRUE
    ELSE LET l == LineOf(doc, k)
             isInt == /\ l.t = "int"
                      /\ l.s # <<>>
                      /\ \A i \in 1..Len(l.s) : IsDigit(l.s[i])
         IN  CASE k = "port" -> isInt /\ DecValue(l.s, 0) <= U16Max
               [] k \in IntKeys -> isInt
               [] k = "host" -> l.t = "str" /\ l.s \in ValidHosts
               [] OTHER -> l.t = "str"

ArgKeys ==
    {"config", "host", "port", "tls_cert", "tls_key", "tb_store_strategy"} \cup IntKeys

TextField(doc, k) ==
    IF HasKey(doc, k) THEN [some |-> TRUE, v |-> LineOf(doc, k).s] ELSE NoText

IntField(doc, k) ==
    IF HasKey(doc, k) THEN [some |-> TRUE, v |-> DecValue(LineOf(doc, k).s, 0)] ELSE NoInt

PathField(doc, k) ==
    IF HasKey(doc, k) THEN [some |-> TRUE, abs |-> FALSE, p |-> <<k>>] ELSE NoPath

\* toml::from_str::<ServeArgs>: fails on text that is no TOML, on a key given
\* twice and on a value of the wrong type; a field the text does not give
\* is None
toml_from_str(doc) ==
    IF \/ \E i \in 1..Len(doc) : doc[i].t = "bad"
       \/ \E k \in ArgKeys : Cardinality(ValueLines(doc, k)) > 1
       \/ \E k \in ArgKeys : ~FieldOk(doc, k)
    THEN [ok |-> FALSE, args |-> NoArgs]
    ELSE [ok |-> TRUE,
          args |-> [config   |-> PathField(doc, "config"),
                    host     |-> TextField(doc, "host"),
                    port     |-> IntField(doc, "port"),
                    tls_cert |-> PathField(doc, "tls_cert"),
                    tls_key  |-> PathField(doc, "tls_key"),
                    workers  |-> IntField(doc, "workers"),
                    tb_store_strategy |-> TextField(doc, "tb_store_strategy"),
                    tb_capacity  |-> IntField(doc, "tb_capacity"),
                    tb_fill_rate |-> IntField(doc, "tb_fill_rate"),
                    tb_expired   |-> IntField(doc, "tb_expired")]]

\* what std::fs::read(config_path) gives
Unreadable == [kind |-> "unreadable", doc |-> <<>>]

NonUtf8 == [kind |-> "nonutf8", doc |-> <<>>]

Text(doc) == [kind |-> "text", doc |-> doc]

\* serve_args keeping the command line's value of a field the file leaves out
serve_args_Merge(args, relative_path, rd) ==
    LET a == IF relative_path THEN fix_relative_path(args) ELSE args
        pick(fromFile, fromCli) == IF fromFile.some THEN fromFile ELSE fromCli
    IN  IF ~a.config.some THEN [ok |-> TRUE, err |-> "none", args |-> a]
        ELSE IF rd.kind = "unreadable" THEN [ok |-> FALSE, err |-> "ConfigIO", args |-> a]
        ELSE IF rd.kind = "nonutf8" THEN [ok |-> FALSE, err |-> "ConfigDecode", args |-> a]
        ELSE LET parsed == toml_from_str(rd.doc)
             IN  IF parsed.ok
                 THEN [ok |-> TRUE, err |-> "none",
                       args |-> [k \in DOMAIN a |-> pick(parsed.args[k], a[k])]]
                 ELSE [ok |-> FALSE, err |-> "ConfigDecode", args |-> a]

\* lines 6-15: the arguments the launcher is configured from, rd being what
\* reading the configuration file gives
serve_args(args, relative_path, rd) ==
    LET a == IF relative_path THEN fix_relative_path(args) ELSE args
    IN  IF ~a.config.some THEN [ok |-> TRUE, err |-> "none", args |-> a]
        ELSE IF rd.kind = "unreadable" THEN [ok |-> FALSE, err |-> "ConfigIO", args |-> a]
        ELSE IF rd.kind = "nonutf8" THEN [ok |-> FALSE, err |-> "ConfigDecode", args |-> a]
        ELSE LET parsed == toml_from_str(rd.doc)
             IN  IF parsed.ok THEN [ok |-> TRUE, err |-> "none", args |-> parsed.args]
                 ELSE [ok |-> FALSE, err |-> "ConfigDecode", args |-> a]

DefaultPort == 7999

NoTls == [some |-> FALSE, cert |-> NoPath, key |-> NoPath]

NoCfg ==
    [host |-> <<>>, port |-> 0, tls |-> NoTls, workers |-> NoInt,
     tb_store_strategy |-> NoText, tb_capacity |-> NoInt, tb_fill_rate |-> NoInt,
     tb_expired |-> NoInt]

\* launcher_config filling the pair from whichever of the two paths is given
launcher_config_PartialTls(args) ==
    [host |-> IF args.host.some THEN args.host.v ELSE Host0000,
     port |-> IF args.port.some THEN args.port.v ELSE DefaultPort,
     tls  |-> IF args.tls_key.some \/ args.tls_cert.some
              THEN [some |-> TRUE, cert |-> args.tls_cert, key |-> args.tls_key]
              ELSE NoTls,
     workers |-> args.workers,
     tb_store_strategy |-> args.tb_store_strategy,
     tb_capacity  |-> args.tb_capacity,
     tb_fill_rate |-> args.tb_fill_rate,
     tb_expired   |-> args.tb_expired]

\* lines 16-49: what the LauncherBuilder is given
launcher_config(args) ==
    [host |-> IF args.host.some THEN args.host.v ELSE Host0000,
     port |-> IF args.port.some THEN args.port.v ELSE DefaultPort,
     tls  |-> IF args.tls_key.some /\ args.tls_cert.some
              THEN [some |-> TRUE, cert |-> args.tls_cert, key |-> args.tls_key]
              ELSE NoTls,
     workers |-> args.workers,
     tb_store_strategy |-> args.tb_store_strategy,
     tb_capacity  |-> args.tb_capacity,
     tb_fill_rate |-> args.tb_fill_rate,
     tb_expired   |-> args.tb_expired]

\* a configuration file naming a certificate and a key by relative paths
DocTlsPair == <<KV("tls_cert", "str", <<"c">>), KV("tls_key", "str", <<"k">>)>>

\* what the configuration file of a daemon may hold
DaemonReads == {Unreadable, NonUtf8, Text(<<BadLine>>), Text(<<>>), Text(DocTlsPair)}

-----------------------------------------------------------------------------
(* The directory tree of the foreground commands.  A path is the sequence  *)
(* of its components, relative to the current directory.                   *)

\* std::env::current_dir()?.join("opengpt-serve.toml"), line 186
DefaultOut == <<"opengpt-serve.toml">>

Paths == {<<"t">>, <<"d">>, <<"d", "t">>, <<"d", "e">>, <<"d", "e", "t">>, DefaultOut}

\* Path::parent
Parent(path) == SubSeq(path, 1, Len(path) - 1)

NoNode == [t |-> "none", c |-> Text(<<>>)]

DirNode == [t |-> "dir", c |-> Text(<<>>)]

FileNode(c) == [t |-> "file", c |-> c]

EmptyFs == [path \in Paths |-> NoNode]

\* what is at a path; the empty path is the current directory
Kind(f, path) == IF path = <<>> THEN "dir" ELSE f[path].t

\* Path::exists, which is false of the empty path
PathExists(f, path) == path # <<>> /\ f[path].t # "none"

\* Path::is_dir
IsDir(f, path) == path # <<>> /\ f[path].t = "dir"

RECURSIVE CreateDirAll(_, _)
\* std::fs::create_dir_all: makes the directory and its missing ancestors;
\* fails when the path or an ancestor is a file; Ok on the empty path
CreateDirAll(f, path) ==
    IF path = <<>> \/ f[path].t = "dir" THEN [ok |-> TRUE, fs |-> f]
    ELSE IF f[path].t = "file" THEN [ok |-> FALSE, fs |-> f]
    ELSE LET up == CreateDirAll(f, Parent(path))
         IN  IF up.ok THEN [ok |-> TRUE, fs |-> [up.fs EXCEPT ![path] = DirNode]]
             ELSE up

\* std::fs::File::create: a new empty file, or the existing one truncated
CreateFile(f, path) ==
    IF Kind(f, Parent(path)) = "dir" /\ f[path].t # "dir"
    THEN [ok |-> TRUE, fs |-> [f EXCEPT ![path] = FileNode(Text(<<>>))]]
    ELSE [ok |-> FALSE, fs |-> f]

\* std::fs::write
WriteFile(f, path, c) ==
    IF Kind(f, Parent(path)) = "dir" /\ f[path].t # "dir"
    THEN [ok |-> TRUE, fs |-> [f EXCEPT ![path] = FileNode(c)]]
    ELSE [ok |-> FALSE, fs |-> f]

\* std::fs::read
ReadFile(f, path) ==
    IF path \in Paths /\ f[path].t = "file" THEN f[path].c ELSE Unreadable

\* the template of line 189, line by line
Template ==
    << KV("host", "str", Host0000),
       KV("port", "int", <<"7", "9", "9", "9">>),
       KV("workers", "int", <<"1">>),
       CommentLine,
       KV("timeout", "int", <<"6", "0", "0">>),
       KV("connect_timeout", "int", <<"6", "0">>),
       KV("tcp_keepalive", "int", <<"6", "0">>),
       CommentLine,
       CommentLine,
       CommentLine,
       KV("tb_enable", "bool", <<"false">>),
       KV("tb_store_strategy", "str", <<"m", "e", "m">>),
       KV("tb_redis_url", "array", <<"redis://127.0.0.1:6379">>),
       KV("tb_capacity", "int", <<"6", "0">>),
       KV("tb_fill_rate", "int", <<"1">>),
       KV("tb_expired", "int", <<"8", "6", "4", "0", "0">>),
       CommentLine,
       CommentLine,
       CommentLine >>

\* configuration files found in the tree
Port8000 == <<"8", "0", "0", "0">>

Port9000 == <<"9", "0", "0", "0">>

DocPort == <<CommentLine, KV("port", "int", Port9000)>>

DocTls == <<KV("tls_cert", "str", <<"c">>), KV("host", "str", Host127)>>

DocWrongType == <<KV("port", "str", Port9000)>>

InitContents ==
    {Text(<<>>), Text(DocPort), Text(DocTls), Text(DocWrongType), Text(<<BadLine>>), NonUtf8}

EmptyFile == FileNode(Text(<<>>))

\* the subtree under d, when d is a directory
SubTrees ==
    {[d |-> n, dt |-> NoNode, de |-> NoNode] : n \in {NoNode, EmptyFile}}
    \cup {[d |-> DirNode, dt |-> x, de |-> y] :
            x \in {NoNode, FileNode(Text(DocPort))},
            y \in {NoNode, DirNode}}

InitFsSet ==
    {[path \in Paths |->
        CASE path = <<"t">> -> t
          [] path = <<"d">> -> st.d
          [] path = <<"d", "t">> -> st.dt
          [] path = <<"d", "e">> -> st.de
          [] path = DefaultOut -> df
          [] OTHER -> NoNode] :
        t \in {NoNode, DirNode} \cup {FileNode(c) : c \in InitContents},
        st \in SubTrees,
        df \in {NoNode, EmptyFile}}

\* what the foreground command run before this one wrote: nothing, or the
\* template over what was at target before
NoGen == [wrote |-> FALSE, target |-> <<>>, before |-> NoNode]

FgIdle ==
    [pc |-> "idle", cmd |-> "none", cover |-> FALSE, out |-> NoPath, target |-> <<>>,
     args |-> NoArgs, res |-> "none", launched |-> FALSE, cfg |-> NoCfg,
     fs0 |-> EmptyFs, prev |-> NoGen]

-----------------------------------------------------------------------------
(* serve_log (lines 151-170) and the log it reads.                         *)

\* number of lines of the longest log
MaxLines == 3

\* a line of text, another one, and a line that is not valid UTF-8
BadUtf8 == "invalid utf-8"

LineKinds == {"alpha", "beta", BadUtf8}

\* env::DEFAULT_STDOUT_PATH as serve_log may find it: nothing there, a
\* regular file, or something File::open opens and no read succeeds on
\* (a directory)
LogFiles ==
    {[kind |-> "absent", lines |-> <<>>], [kind |-> "dir", lines |-> <<>>]}
    \cup {[kind |-> "file", lines |-> l] :
            l \in UNION {[1..n -> LineKinds] : n \in 0..MaxLines}}

\* the reports of line 166 are counted up to this many
ErrCap == MaxLines + 1

\* odd: whether the for loop has taken an odd number of turns
LogIdle ==
    [pc |-> "idle", file |-> [kind |-> "absent", lines |-> <<>>], pos |-> 0,
     out |-> <<>>, errs |-> 0, odd |-> FALSE, res |-> "none"]

RECURSIVE Readable(_)
\* the lines of a log that are valid text, in file order
Readable(lines) ==
    IF lines = <<>> THEN <<>>
    ELSE (IF Head(lines) = BadUtf8 THEN <<>> ELSE <<Head(lines)>>) \o Readable(Tail(lines))

\* io::Lines::next on the BufReader, pos lines having been consumed:
\* None at the end of a regular file; Some(Ok(line)) or, the line's bytes
\* consumed all the same, Some(Err(_)) for a line that is not UTF-8;
\* Some(Err(_)) with nothing consumed when the read itself fails
lines_next(file, pos) ==
    IF file.kind = "dir" THEN [some |-> TRUE, ok |-> FALSE, line |-> "", pos |-> pos]
    ELSE IF pos >= Len(file.lines) THEN [some |-> FALSE, ok |-> TRUE, line |-> "", pos |-> pos]
    ELSE [some |-> TRUE, ok |-> file.lines[pos + 1] # BadUtf8,
          line |-> file.lines[pos + 1], pos |-> pos + 1]

\* line 160: File::open(&path)?
LogOpen ==
    /\ log.pc = "idle"
    /\ log' = IF log.file.kind = "absent"
              THEN [log EXCEPT !.pc = "done", !.res = "FileSystemError"]
              ELSE [log EXCEPT !.pc = "reading"]
    /\ UNCHANGED <<fs, fg, nRuns>>
    /\ UNCHANGED ctlVars

\* lines 163-168: one turn of the for loop
LogLine ==
    /\ log.pc = "reading"
    /\ LET nx == lines_next(log.file, log.pos)
       IN  /\ nx.some
           /\ log' = IF nx.ok
                     THEN [log EXCEPT !.pos = nx.pos, !.odd = ~@,
                                      !.out = Append(@, nx.line)]
                     ELSE [log EXCEPT !.pos = nx.pos, !.odd = ~@,
                                      !.errs = IF @ < ErrCap THEN @ + 1 ELSE @]
    /\ UNCHANGED <<fs, fg, nRuns>>
    /\ UNCHANGED ctlVars

\* lines 163 and 169: the iterator is exhausted, Ok(())
LogEnd ==
    /\ log.pc = "reading"
    /\ ~lines_next(log.file, log.pos).some
    /\ log' = [log EXCEPT !.pc = "done", !.res = "ok"]
    /\ UNCHANGED <<fs, fg, nRuns>>
    /\ UNCHANGED ctlVars

InitLog ==
    /\ pidFile = NoFile
    /\ outFile = NoFile
    /\ errFile = NoFile
    /\ daemon = [pid \in Pids |-> NoDaemon]
    /\ pending = {}
    /\ inv = [p \in Procs |-> IdleRec]
    /\ last = IdleRec
    /\ nInv = 0
    /\ fs = EmptyFs
    /\ fg = FgIdle
    /\ nRuns = 0
    /\ log \in {[LogIdle EXCEPT !.file = f] : f \in LogFiles}

NextLog ==
    \/ LogOpen
    \/ LogLine
    \/ LogEnd

\* serve_log runs on as long as it has a step to take
SpecLog == InitLog /\ [][NextLog]_vars /\ WF_vars(NextLog)

-----------------------------------------------------------------------------
(* The state before any command has run.                                   *)

Init ==
    /\ pidFile \in {NoFile} \cup
           {[exists |-> TRUE, content |-> c, mode |-> Mode0755, locker |-> 0] :
                c \in InitPidContents}
    /\ outFile = NoFile
    /\ errFile = NoFile
    /\ daemon = [pid \in Pids |-> NoDaemon]
    /\ pending = {}
    /\ inv = [p \in Procs |-> IdleRec]
    /\ last = IdleRec
    /\ nInv = 0
    /\ fs = EmptyFs
    /\ fg = FgIdle
    /\ nRuns = 0
    /\ log = LogIdle

Commands == {"start", "stop", "restart", "status"}

\* invocation p goes on as r
Goto(p, r) == inv' = [inv EXCEPT ![p] = r]

\* a shell runs one of the commands, the previous ones having returned; a
\* stop run right after a stop remembers how that one went
Begin(p) ==
    /\ \A q \in Procs : inv[q].pc = "idle"
    /\ nInv < MaxInvocations
    /\ \E cmd \in Commands, root \in BOOLEAN, args \in ArgsSet :
        /\ cmd \in {"stop", "status"} => args = NoArgs
        /\ Goto(p, [IdleRec EXCEPT !.pc = FirstPc(cmd), !.cmd = cmd,
                                   !.root = root, !.args = args, !.args0 = args,
                                   !.preKind = PidKind(pidFile),
                                   !.prev = IF cmd = "stop" /\ last.cmd = "stop"
                                            THEN Summary(last) ELSE NoPrev])
    /\ nInv' = nInv + 1
    /\ UNCHANGED <<pidFile, outFile, errFile, daemon, pending, last>>
    /\ UNCHANGED fgVars

\* invocation p, being r, returns res to its shell
ReturnCli(p, r, res, post) ==
    /\ last' = Returned(r, res, post)
    /\ inv' = [inv EXCEPT ![p] = IdleRec]

Say(r, m) == [r EXCEPT !.msgs = @ \cup {m}]

-----------------------------------------------------------------------------
(* serve_stop                                                              *)

\* StopReturnOk with restart giving up when stop found nothing to stop
StopReturnOk_AbortWhenNotRunning(p, r, post) ==
    IF r.cmd = "restart" /\ "not running" \notin r.msgs
    THEN /\ Goto(p, [r EXCEPT !.pc = "start_root", !.stopRet = "ok"])
         /\ UNCHANGED last
    ELSE ReturnCli(p, [r EXCEPT !.stopRet = "ok"], "ok", post)

\* serve_stop returns Ok(()): restart goes on to serve_start
StopReturnOk(p, r, post) ==
    IF r.cmd = "restart"
    THEN /\ Goto(p, [r EXCEPT !.pc = "start_root", !.stopRet = "ok"])
         /\ UNCHANGED last
    ELSE ReturnCli(p, [r EXCEPT !.stopRet = "ok"], "ok", post)

\* line 114
StopCheckRoot(p) ==
    /\ inv[p].pc = "stop_root"
    /\ IF check_root(inv[p])
       THEN Goto(p, [inv[p] EXCEPT !.pc = "stop_getpid"]) /\ UNCHANGED last
       ELSE ReturnCli(p, inv[p], "PermissionDenied", pidFile)
    /\ UNCHANGED <<pidFile, outFile, errFile, daemon, pending, nInv>>
    /\ UNCHANGED fgVars

\* StopGetPid returning an error when no pid is recorded
StopGetPid_AbsentIsError(p) ==
    /\ inv[p].pc = "stop_getpid"
    /\ LET got == get_pid
           r   == [inv[p] EXCEPT !.pidv = got]
       IN  IF ~got.some
           THEN ReturnCli(p, [r EXCEPT !.stopRet = "err"], "NotRunning", pidFile)
           ELSE IF ~ParseI32(got.v).ok
           THEN ReturnCli(p, [r EXCEPT !.stopRet = "err"], "PidCorrupt", pidFile)
           ELSE Goto(p, [r EXCEPT !.pc = "stop_kill"]) /\ UNCHANGED last
    /\ UNCHANGED <<pidFile, outFile, errFile, daemon, pending, nInv>>
    /\ UNCHANGED fgVars

\* StopGetPid with pid.parse::<i32>().unwrap_or(0) in place of the ?
StopGetPid_LenientParse(p) ==
    /\ inv[p].pc = "stop_getpid"
    /\ LET got == get_pid
           r   == [inv[p] EXCEPT !.pidv = got]
       IN  IF ~got.some
           THEN StopReturnOk(p, Say(r, "not running"), pidFile)
           ELSE Goto(p, [r EXCEPT !.pc = "stop_kill"]) /\ UNCHANGED last
    /\ UNCHANGED <<pidFile, outFile, errFile, daemon, pending, nInv>>
    /\ UNCHANGED fgVars

\* get_pid and pid.parse::<i32>()?
StopGetPid(p) ==
    /\ inv[p].pc = "stop_getpid"
    /\ LET got == get_pid
           r   == [inv[p] EXCEPT !.pidv = got]
       IN  IF ~got.some
           THEN StopReturnOk(p, Say(r, "not running"), pidFile)
           ELSE IF ~ParseI32(got.v).ok
           THEN ReturnCli(p, [r EXCEPT !.stopRet = "err"], "PidCorrupt", pidFile)
           ELSE Goto(p, [r EXCEPT !.pc = "stop_kill"]) /\ UNCHANGED last
    /\ UNCHANGED <<pidFile, outFile, errFile, daemon, pending, nInv>>
    /\ UNCHANGED fgVars

\* StopKill with kill(..)? in place of the if let Err(_) of line 118
StopKill_FailureIsError(p) ==
    /\ inv[p].pc = "stop_kill"
    /\ LET target == ParseI32(inv[p].pidv.v).v
           ok     == target \in alive
           r      == [inv[p] EXCEPT !.pc = "stop_rm",
                                    !.sig = [sent |-> TRUE, pid |-> target, ok |-> ok]]
       IN  IF ok
           THEN Goto(p, r) /\ pending' = pending \cup {target} /\ UNCHANGED last
           ELSE /\ ReturnCli(p, [r EXCEPT !.stopRet = "err"], "ProcessSignalFailed", pidFile)
                /\ UNCHANGED pending
    /\ UNCHANGED <<pidFile, outFile, errFile, daemon, nInv>>
    /\ UNCHANGED fgVars

\* nix::sys::signal::kill(Pid::from_raw(pid), SIGINT)
StopKill(p) ==
    /\ inv[p].pc = "stop_kill"
    /\ LET target == ParseI32(inv[p].pidv.v).v
           ok     == target \in alive
           r      == [inv[p] EXCEPT !.pc = "stop_rm",
                                    !.sig = [sent |-> TRUE, pid |-> target, ok |-> ok]]
       IN  /\ Goto(p, IF ok THEN r ELSE Say(r, "not running"))
           /\ pending' = IF ok THEN pending \cup {target} ELSE pending
    /\ UNCHANGED <<pidFile, outFile, errFile, daemon, last, nInv>>
    /\ UNCHANGED fgVars

\* let _ = std::fs::remove_file(env::PID_PATH); Ok(())
StopRemove(p) ==
    /\ inv[p].pc = "stop_rm"
    /\ \E ok \in BOOLEAN :
        LET removed == ok /\ pidFile.exists
            post    == IF removed THEN NoFile ELSE pidFile
        IN  /\ pidFile' = post
            /\ StopReturnOk(p, [inv[p] EXCEPT !.rm = IF removed THEN "ok" ELSE "err"], post)
    /\ UNCHANGED <<outFile, errFile, daemon, pending, nInv>>
    /\ UNCHANGED fgVars

-----------------------------------------------------------------------------
(* serve_restart                                                           *)

RestartCheckRoot(p) ==
    /\ inv[p].pc = "restart_root"
    /\ IF check_root(inv[p])
       THEN Goto(p, Say([inv[p] EXCEPT !.pc = "stop_root"], "restarting")) /\ UNCHANGED last
       ELSE ReturnCli(p, inv[p], "PermissionDenied", pidFile)
    /\ UNCHANGED <<pidFile, outFile, errFile, daemon, pending, nInv>>
    /\ UNCHANGED fgVars

-----------------------------------------------------------------------------
(* serve_status                                                            *)

\* Status asking the system whether the recorded process is alive
Status_ProbesProcess(p) ==
    /\ inv[p].pc = "status"
    /\ LET got == get_pid
           r   == [inv[p] EXCEPT !.pidv = got]
           up  == got.some /\ ParseI32(got.v).ok /\ ParseI32(got.v).v \in alive
       IN  ReturnCli(p, Say(r, IF up THEN "running" ELSE "not running"), "ok", pidFile)
    /\ UNCHANGED <<pidFile, outFile, errFile, daemon, pending, nInv>>
    /\ UNCHANGED fgVars

\* lines 140-148
Status(p) ==
    /\ inv[p].pc = "status"
    /\ LET got == get_pid
           r   == [inv[p] EXCEPT !.pidv = got]
       IN  ReturnCli(p, Say(r, IF got.some THEN "running" ELSE "not running"),
                     "ok", pidFile)
    /\ UNCHANGED <<pidFile, outFile, errFile, daemon, pending, nInv>>
    /\ UNCHANGED fgVars

-----------------------------------------------------------------------------
(* serve_start                                                             *)

\* StartCheckRoot letting every caller through
StartCheckRoot_NoCheck(p) ==
    /\ inv[p].pc = "start_root"
    /\ Goto(p, [inv[p] EXCEPT !.pc = "start_getpid", !.startRan = TRUE])
    /\ UNCHANGED <<pidFile, outFile, errFile, daemon, pending, last, nInv>>
    /\ UNCHANGED fgVars

\* line 62
StartCheckRoot(p) ==
    /\ inv[p].pc = "start_root"
    /\ IF check_root(inv[p])
       THEN /\ Goto(p, [inv[p] EXCEPT !.pc = "start_getpid", !.startRan = TRUE])
            /\ UNCHANGED last
       ELSE ReturnCli(p, [inv[p] EXCEPT !.startRan = TRUE], "PermissionDenied", pidFile)
    /\ UNCHANGED <<pidFile, outFile, errFile, daemon, pending, nInv>>
    /\ UNCHANGED fgVars

\* StartGetPid without the return of line 66
StartGetPid_IgnoresRecord(p) ==
    /\ inv[p].pc = "start_getpid"
    /\ Goto(p, [inv[p] EXCEPT !.pc = "start_pidfile", !.pidv = get_pid])
    /\ UNCHANGED <<pidFile, outFile, errFile, daemon, pending, last, nInv>>
    /\ UNCHANGED fgVars

\* lines 64-67
StartGetPid(p) ==
    /\ inv[p].pc = "start_getpid"
    /\ LET got == get_pid
           r   == [inv[p] EXCEPT !.pidv = got]
       IN  IF got.some
           THEN ReturnCli(p, Say(r, "already running"), "ok", pidFile)
           ELSE Goto(p, [r EXCEPT !.pc = "start_pidfile"]) /\ UNCHANGED last
    /\ UNCHANGED <<pidFile, outFile, errFile, daemon, pending, nInv>>
    /\ UNCHANGED fgVars

\* StartCreatePid creating the pid file only when there is none (create_new)
\* and taking an existing one as a running instance
StartCreatePid_CreateNew(p) ==
    /\ inv[p].pc = "start_pidfile"
    /\ IF pidFile.exists
       THEN /\ ReturnCli(p, Say(inv[p], "already running"), "ok", pidFile)
            /\ UNCHANGED pidFile
       ELSE /\ pidFile' = SetPermissions(FileCreate(pidFile), Mode0755)
            /\ Goto(p, [inv[p] EXCEPT !.pc = "start_stdout"])
            /\ UNCHANGED last
    /\ UNCHANGED <<outFile, errFile, daemon, pending, nInv>>
    /\ UNCHANGED fgVars

\* lines 69-70: File::create(PID_PATH).unwrap(), set_permissions(0o755)?
\* Whether the file is already there is not looked at
StartCreatePid(p) ==
    /\ inv[p].pc = "start_pidfile"
    /\ \E created \in BOOLEAN, chmod \in BOOLEAN :
        IF ~created
        THEN /\ ReturnCli(p, [inv[p] EXCEPT !.createFailed = "pid"], "panic", pidFile)
             /\ UNCHANGED pidFile
        ELSE IF ~chmod
        THEN /\ pidFile' = FileCreate(pidFile)
             /\ ReturnCli(p, inv[p], "FileSystemError", FileCreate(pidFile))
        ELSE /\ pidFile' = SetPermissions(FileCreate(pidFile), Mode0755)
             /\ Goto(p, [inv[p] EXCEPT !.pc = "start_stdout", !.raced = pidFile.exists])
             /\ UNCHANGED last
    /\ UNCHANGED <<outFile, errFile, daemon, pending, nInv>>
    /\ UNCHANGED fgVars

\* StartCreateStdout going on when File::create fails
StartCreateStdout_IgnoresFailure(p) ==
    /\ inv[p].pc = "start_stdout"
    /\ \E created \in BOOLEAN :
        IF ~created
        THEN /\ Goto(p, [inv[p] EXCEPT !.pc = "start_stderr", !.createFailed = "stdout"])
             /\ UNCHANGED outFile
        ELSE /\ outFile' = SetPermissions(FileCreate(outFile), Mode0755)
             /\ Goto(p, [inv[p] EXCEPT !.pc = "start_stderr"])
    /\ UNCHANGED <<pidFile, errFile, daemon, pending, last, nInv>>
    /\ UNCHANGED fgVars

\* lines 72-73
StartCreateStdout(p) ==
    /\ inv[p].pc = "start_stdout"
    /\ \E created \in BOOLEAN, chmod \in BOOLEAN :
        IF ~created
        THEN /\ ReturnCli(p, [inv[p] EXCEPT !.createFailed = "stdout"], "panic", pidFile)
             /\ UNCHANGED outFile
        ELSE IF ~chmod
        THEN /\ outFile' = FileCreate(outFile)
             /\ ReturnCli(p, inv[p], "FileSystemError", pidFile)
        ELSE /\ outFile' = SetPermissions(FileCreate(outFile), Mode0755)
             /\ Goto(p, [inv[p] EXCEPT !.pc = "start_stderr"])
             /\ UNCHANGED last
    /\ UNCHANGED <<pidFile, errFile, daemon, pending, nInv>>
    /\ UNCHANGED fgVars

\* lines 75-76: the permissions are set on stdout once more, not on stderr
StartCreateStderr(p) ==
    /\ inv[p].pc = "start_stderr"
    /\ \E created \in BOOLEAN, chmod \in BOOLEAN :
        IF ~created
        THEN /\ ReturnCli(p, [inv[p] EXCEPT !.createFailed = "stderr"], "panic", pidFile)
             /\ UNCHANGED <<outFile, errFile>>
        ELSE IF ~chmod
        THEN /\ errFile' = FileCreate(errFile)
             /\ UNCHANGED outFile
             /\ ReturnCli(p, inv[p], "FileSystemError", pidFile)
        ELSE /\ errFile' = FileCreate(errFile)
             /\ outFile' = SetPermissions(outFile, Mode0755)
             /\ Goto(p, [inv[p] EXCEPT !.pc = "start_user"])
             /\ UNCHANGED last
    /\ UNCHANGED <<pidFile, daemon, pending, nInv>>
    /\ UNCHANGED fgVars

\* lines 87-96: SUDO_USER unset, naming no user (User::from_name gives
\* Ok(None) or Err), or naming a user.  Only the unset variable is reported
StartUser(p) ==
    /\ inv[p].pc = "start_user"
    /\ \E sudoUser \in {"unset", "unknown", "known"} :
        LET r == [inv[p] EXCEPT !.pc = "start_fix", !.dropUser = (sudoUser = "known"),
                                !.sudoUser = sudoUser]
        IN  Goto(p, IF sudoUser = "unset" THEN Say(r, "could not interpret SUDO_USER") ELSE r)
    /\ UNCHANGED <<pidFile, outFile, errFile, daemon, pending, last, nInv>>
    /\ UNCHANGED fgVars

\* line 98
StartFix(p) ==
    /\ inv[p].pc = "start_fix"
    /\ Goto(p, [inv[p] EXCEPT !.pc = "start_detach", !.args = fix_relative_path(@)])
    /\ UNCHANGED <<pidFile, outFile, errFile, daemon, pending, last, nInv>>
    /\ UNCHANGED fgVars

\* whether a live detached child holds the lock on the pid file
PidFileLocked == pidFile.exists /\ pidFile.locker \in alive

\* lines 100-103: daemonize.start().  Ok: the calling process has exited and
\* the process that goes on to line 105 is the detached child, whose pid is
\* in the pid file.  Err (always so when the pid file is locked): the
\* process that called goes on to line 105.
StartDetach(p) ==
    /\ inv[p].pc = "start_detach"
    /\ \/ \E child \in FreshPids :
            /\ ~PidFileLocked
            /\ LET r == [inv[p] EXCEPT !.detachTried = TRUE, !.detached = TRUE,
                                       !.child = child]
               IN  /\ pidFile' = WritePid(pidFile, child)
                   /\ daemon' = [daemon EXCEPT ![child] =
                                    [st |-> "serve", args |-> r.args, end |-> "none"]]
                   /\ ReturnCli(p, r, "ok", WritePid(pidFile, child))
       \/ /\ Goto(p, Say([inv[p] EXCEPT !.pc = "serve", !.detachTried = TRUE],
                         "Error, daemonize"))
          /\ UNCHANGED <<pidFile, daemon, last>>
    /\ UNCHANGED <<outFile, errFile, pending, nInv>>
    /\ UNCHANGED fgVars

-----------------------------------------------------------------------------
(* serve(args, false), line 105, in the process daemonize.start() left.    *)

\* lines 5-50 up to run(): "run" when the launcher was built and runs, else
\* the error serve returns
serve_outcome(args, relative_path, rd, built) ==
    LET got == serve_args(args, relative_path, rd)
        cfg == launcher_config(got.args)
    IN  IF ~got.ok
        THEN [res |-> got.err, launched |-> FALSE, cfg |-> NoCfg, args |-> got.args]
        ELSE IF ~built
        THEN [res |-> "BuildError", launched |-> TRUE, cfg |-> cfg, args |-> got.args]
        ELSE [res |-> "run", launched |-> TRUE, cfg |-> cfg, args |-> got.args]

\* the process whose detach failed
CliServe(p) ==
    /\ inv[p].pc = "serve"
    /\ \E rd \in DaemonReads, built \in BOOLEAN :
        LET out == serve_outcome(inv[p].args, FALSE, rd, built)
            r   == [inv[p] EXCEPT !.launched = out.launched]
        IN  IF out.res = "run"
            THEN Goto(p, [r EXCEPT !.pc = "running"]) /\ UNCHANGED last
            ELSE ReturnCli(p, r, out.res, pidFile)
    /\ UNCHANGED <<pidFile, outFile, errFile, daemon, pending, nInv>>
    /\ UNCHANGED fgVars

\* line 50: run() returns in the process whose detach failed
CliServiceExit(p) ==
    /\ inv[p].pc = "running"
    /\ \E res \in {"ok", "RunError"} : ReturnCli(p, inv[p], res, pidFile)
    /\ UNCHANGED <<pidFile, outFile, errFile, daemon, pending, nInv>>
    /\ UNCHANGED fgVars

\* DaemonServe removing the pid file when the child cannot run the service
DaemonServe_ClearsRecord(pid) ==
    /\ daemon[pid].st = "serve"
    /\ \E rd \in DaemonReads, built \in BOOLEAN :
        LET out == serve_outcome(daemon[pid].args, FALSE, rd, built)
        IN  IF out.res = "run"
            THEN /\ daemon' = [daemon EXCEPT ![pid] =
                                    [st |-> "running", args |-> out.args, end |-> "none"]]
                 /\ UNCHANGED <<pending, pidFile>>
            ELSE /\ daemon' = [daemon EXCEPT ![pid] = Ended(out.res)]
                 /\ pending' = pending \ {pid}
                 /\ pidFile' = NoFile
    /\ UNCHANGED <<outFile, errFile, inv, last, nInv>>
    /\ UNCHANGED fgVars

\* the detached child; args is from line 14 on what the file gave
DaemonServe(pid) ==
    /\ daemon[pid].st = "serve"
    /\ \E rd \in DaemonReads, built \in BOOLEAN :
        LET out == serve_outcome(daemon[pid].args, FALSE, rd, built)
        IN  IF out.res = "run"
            THEN /\ daemon' = [daemon EXCEPT ![pid] =
                                    [st |-> "running", args |-> out.args, end |-> "none"]]
                 /\ UNCHANGED pending
            ELSE /\ daemon' = [daemon EXCEPT ![pid] = Ended(out.res)]
                 /\ pending' = pending \ {pid}
    /\ UNCHANGED <<pidFile, outFile, errFile, inv, last, nInv>>
    /\ UNCHANGED fgVars

\* line 50: run() returns in the detached child, of itself or on SIGINT
DaemonExit(pid) ==
    /\ daemon[pid].st = "running"
    /\ daemon' = [daemon EXCEPT ![pid] = Ended("exit")]
    /\ pending' = pending \ {pid}
    /\ UNCHANGED <<pidFile, outFile, errFile, inv, last, nInv>>
    /\ UNCHANGED fgVars

\* SIGINT ends a detached child that has not yet installed the service's handler
DaemonInterrupted(pid) ==
    /\ daemon[pid].st = "serve"
    /\ pid \in pending
    /\ daemon' = [daemon EXCEPT ![pid] = Ended("SIGINT")]
    /\ pending' = pending \ {pid}
    /\ UNCHANGED <<pidFile, outFile, errFile, inv, last, nInv>>
    /\ UNCHANGED fgVars

-----------------------------------------------------------------------------
(* The foreground commands: generate_template and serve.                   *)

InitConfig ==
    /\ pidFile = NoFile
    /\ outFile = NoFile
    /\ errFile = NoFile
    /\ daemon = [pid \in Pids |-> NoDaemon]
    /\ pending = {}
    /\ inv = [p \in Procs |-> IdleRec]
    /\ last = IdleRec
    /\ nInv = 0
    /\ fs \in InitFsSet
    /\ fg = FgIdle
    /\ nRuns = 0
    /\ log = LogIdle

\* the ServeArgs a foreground serve is run with
FgArgsSet ==
    {[NoArgs EXCEPT !.config = c, !.host = hp[1], !.port = hp[2],
                    !.tls_cert = tc, !.tls_key = tk] :
        c  \in {NoPath, RelPath(<<"t">>), RelPath(<<"d", "t">>)},
        hp \in {<<NoText, NoInt>>,
                <<[some |-> TRUE, v |-> Host127], [some |-> TRUE, v |-> DecValue(Port8000, 0)]>>},
        tc \in {NoPath, RelPath(<<"c">>)},
        tk \in {NoPath, RelPath(<<"k">>)}}

\* what the command that has just returned wrote
JustWrote ==
    IF fg.cmd = "generate_template" /\ fg.cover /\ fg.pc = "done" /\ fg.res = "ok"
    THEN [wrote |-> TRUE, target |-> fg.target, before |-> fg.fs0[fg.target]]
    ELSE NoGen

FgBegin ==
    /\ fg.pc \in {"idle", "done"}
    /\ nRuns < MaxRuns
    /\ \/ \E cover \in BOOLEAN,
             out \in {NoPath} \cup {RelPath(q) : q \in Paths \ {DefaultOut}} :
            fg' = [FgIdle EXCEPT !.pc = "gt_resolve", !.cmd = "generate_template",
                                 !.cover = cover, !.out = out, !.fs0 = fs,
                                 !.prev = JustWrote]
       \/ \E args \in FgArgsSet :
            fg' = [FgIdle EXCEPT !.pc = "sv", !.cmd = "serve", !.args = args, !.fs0 = fs,
                                 !.prev = JustWrote]
    /\ nRuns' = nRuns + 1
    /\ UNCHANGED <<fs, log>>
    /\ UNCHANGED ctlVars

FgDone(res) == fg' = [fg EXCEPT !.pc = "done", !.res = res]

\* GenResolve without the out.is_dir() test of line 174
GenResolve_NoDirTest ==
    /\ fg.pc = "gt_resolve"
    /\ IF fg.out.some
       THEN LET made == IF PathExists(fs, Parent(fg.out.p))
                        THEN [ok |-> TRUE, fs |-> fs]
                        ELSE CreateDirAll(fs, Parent(fg.out.p))
            IN  /\ fs' = made.fs
                /\ IF ~made.ok THEN FgDone("FileSystemError")
                   ELSE IF fg.cover
                   THEN fg' = [fg EXCEPT !.pc = "gt_create", !.target = fg.out.p]
                   ELSE fg' = [fg EXCEPT !.pc = "done", !.res = "ok",
                                         !.target = fg.out.p]
       ELSE /\ UNCHANGED fs
            /\ IF fg.cover
               THEN fg' = [fg EXCEPT !.pc = "gt_create", !.target = DefaultOut]
               ELSE fg' = [fg EXCEPT !.pc = "done", !.res = "ok", !.target = DefaultOut]
    /\ UNCHANGED <<nRuns, log>>
    /\ UNCHANGED ctlVars

\* lines 173-187, and the test of line 191
GenResolve ==
    /\ fg.pc = "gt_resolve"
    /\ IF fg.out.some
       THEN IF IsDir(fs, fg.out.p)
            THEN FgDone("TargetIsDirectory") /\ UNCHANGED fs
            ELSE LET made == IF PathExists(fs, Parent(fg.out.p))
                             THEN [ok |-> TRUE, fs |-> fs]
                             ELSE CreateDirAll(fs, Parent(fg.out.p))
                 IN  /\ fs' = made.fs
                     /\ IF ~made.ok THEN FgDone("FileSystemError")
                        ELSE IF fg.cover
                        THEN fg' = [fg EXCEPT !.pc = "gt_create", !.target = fg.out.p]
                        ELSE fg' = [fg EXCEPT !.pc = "done", !.res = "ok",
                                              !.target = fg.out.p]
       ELSE /\ UNCHANGED fs
            /\ IF fg.cover
               THEN fg' = [fg EXCEPT !.pc = "gt_create", !.target = DefaultOut]
               ELSE fg' = [fg EXCEPT !.pc = "done", !.res = "ok", !.target = DefaultOut]
    /\ UNCHANGED <<nRuns, log>>
    /\ UNCHANGED ctlVars

\* line 196: File::create(&out)?.set_permissions(..)?
GenCreate ==
    /\ fg.pc = "gt_create"
    /\ LET made == CreateFile(fs, fg.target)
       IN  /\ fs' = made.fs
           /\ IF made.ok THEN fg' = [fg EXCEPT !.pc = "gt_write"]
              ELSE FgDone("FileSystemError")
    /\ UNCHANGED <<nRuns, log>>
    /\ UNCHANGED ctlVars

\* GenWrite leaving the created file empty
GenWrite_CreatesOnly ==
    /\ fg.pc = "gt_write"
    /\ FgDone(IF Kind(fs, fg.target) = "file" THEN "ok" ELSE "FileSystemError")
    /\ UNCHANGED <<fs, nRuns, log>>
    /\ UNCHANGED ctlVars

\* line 202: Ok(std::fs::write(out, template)?)
GenWrite ==
    /\ fg.pc = "gt_write"
    /\ LET made == WriteFile(fs, fg.target, Text(Template))
       IN  /\ fs' = made.fs
           /\ FgDone(IF made.ok THEN "ok" ELSE "FileSystemError")
    /\ UNCHANGED <<nRuns, log>>
    /\ UNCHANGED ctlVars

\* serve(args, true), lines 5-50 up to run()
FgServe ==
    /\ fg.pc = "sv"
    /\ \E built \in BOOLEAN :
        LET rd  == ReadFile(fs, fg.args.config.p)
            out == serve_outcome(fg.args, TRUE, rd, built)
        IN  fg' = [fg EXCEPT !.pc = IF out.res = "run" THEN "sv_running" ELSE "done",
                             !.res = IF out.res = "run" THEN "none" ELSE out.res,
                             !.launched = out.launched, !.cfg = out.cfg]
    /\ UNCHANGED <<fs, nRuns, log>>
    /\ UNCHANGED ctlVars

\* line 50: run() returns
FgServiceExit ==
    /\ fg.pc = "sv_running"
    /\ \E res \in {"ok", "RunError"} : FgDone(res)
    /\ UNCHANGED <<fs, nRuns, log>>
    /\ UNCHANGED ctlVars

NextConfig ==
    \/ FgBegin
    \/ GenResolve
    \/ GenCreate
    \/ GenWrite
    \/ FgServe
    \/ FgServiceExit

SpecConfig == InitConfig /\ [][NextConfig]_vars

-----------------------------------------------------------------------------
(* Two shells running start at the same time, no pid being recorded.       *)

\* number of start invocations in one behaviour of SpecRace
MaxStarts == 2

InitRace ==
    /\ pidFile = NoFile
    /\ outFile = NoFile
    /\ errFile = NoFile
    /\ daemon = [pid \in Pids |-> NoDaemon]
    /\ pending = {}
    /\ inv = [p \in Procs |-> IdleRec]
    /\ last = IdleRec
    /\ nInv = 0
    /\ fs = EmptyFs
    /\ fg = FgIdle
    /\ nRuns = 0
    /\ log = LogIdle

\* the shell of slot p runs start as root, whatever the other slot is doing
RaceBegin(p) ==
    /\ inv[p].pc = "idle"
    /\ nInv < MaxStarts
    /\ \E args \in ArgsSet :
        Goto(p, [IdleRec EXCEPT !.pc = FirstPc("start"), !.cmd = "start",
                                !.root = TRUE, !.args = args, !.args0 = args,
                                !.preKind = PidKind(pidFile)])
    /\ nInv' = nInv + 1
    /\ UNCHANGED <<pidFile, outFile, errFile, daemon, pending, last>>
    /\ UNCHANGED fgVars

NextRace ==
    \/ \E p \in Procs : RaceBegin(p)
    \/ \E p \in Procs : StartCheckRoot(p)
    \/ \E p \in Procs : StartGetPid(p)
    \/ \E p \in Procs : StartCreatePid(p)
    \/ \E p \in Procs : StartCreateStdout(p)
    \/ \E p \in Procs : StartCreateStderr(p)
    \/ \E p \in Procs : StartUser(p)
    \/ \E p \in Procs : StartFix(p)
    \/ \E p \in Procs : StartDetach(p)
    \/ \E p \in Procs : CliServe(p)
    \/ \E p \in Procs : CliServiceExit(p)
    \/ \E pid \in Pids : DaemonServe(pid)
    \/ \E pid \in Pids : DaemonExit(pid)

SpecRace == InitRace /\ [][NextRace]_vars

-----------------------------------------------------------------------------

Next ==
    \/ Begin(Shell)
    \/ \E p \in Procs : StartCheckRoot(p)
    \/ \E p \in Procs : StartGetPid(p)
    \/ \E p \in Procs : StartCreatePid(p)
    \/ \E p \in Procs : StartCreateStdout(p)
    \/ \E p \in Procs : StartCreateStderr(p)
    \/ \E p \in Procs : StartUser(p)
    \/ \E p \in Procs : StartFix(p)
    \/ \E p \in Procs : StartDetach(p)
    \/ \E p \in Procs : CliServe(p)
    \/ \E p \in Procs : CliServiceExit(p)
    \/ \E pid \in Pids : DaemonServe(pid)
    \/ \E pid \in Pids : DaemonExit(pid)
    \/ \E pid \in Pids : DaemonInterrupted(pid)
    \/ \E p \in Procs : StopCheckRoot(p)
    \/ \E p \in Procs : StopGetPid(p)
    \/ \E p \in Procs : StopKill(p)
    \/ \E p \in Procs : StopRemove(p)
    \/ \E p \in Procs : RestartCheckRoot(p)
    \/ \E p \in Procs : Status(p)

Spec == Init /\ [][Next]_vars

-----------------------------------------------------------------------------
(* Properties of the daemon control commands, checked under Spec.          *)

\* the files and processes the commands share
shared == <<pidFile, outFile, errFile, daemon, pending>>

\* invocation p takes its step at pc
StepsAt(p, pc) == inv[p].pc = pc /\ inv'[p].pc # pc

\* C1: a start that finds a pid recorded reports "already running" and
\* returns success; neither its privilege check nor its look at the pid file
\* changes the pid file, the redirect files or the processes, and it has
\* created nothing, tried no detach and launched nothing.
C1_SecondStartIsNoOp ==
    [][\A p \in Procs :
        /\ StepsAt(p, "start_root") => UNCHANGED shared
        /\ (StepsAt(p, "start_getpid") /\ pidFile.exists) =>
              /\ UNCHANGED shared
              /\ inv'[p] = IdleRec
              /\ last'.res = "ok"
              /\ last'.msgs \ {"restarting", "not running"} = {"already running"}
              /\ last'.pidv = Some(pidFile.content)
              /\ last'.createFailed = "none"
              /\ ~last'.detachTried /\ ~last'.detached /\ ~last'.launched]_vars

\* a second start, the child of the first being alive and recorded
C1_Witness ==
    /\ last.cmd = "start" /\ last.res = "ok"
    /\ "already running" \in last.msgs
    /\ \E pid \in alive : last.pidv = Some(ToDec(pid)) /\ pidFile.content = ToDec(pid)

\* two stops in a row, both by a privileged caller
StopTwice ==
    /\ last.cmd = "stop" /\ last.prev.cmd = "stop"
    /\ last.res # "PermissionDenied" /\ last.prev.res # "PermissionDenied"

\* C2 as claimed: whatever the pid file held before the first of two stops
\* in a row, neither returns an error, the second reports "not running" and
\* no pid record is left.
C2_StopTwiceAnyContent ==
    StopTwice =>
        /\ last.prev.res = "ok" /\ last.res = "ok"
        /\ "not running" \in last.msgs
        /\ ~last.postExists

\* C2, amended: when the pid file was absent or held an integer before the
\* first of two stops in a row, neither returns an error, and if the first
\* stop's removal of the pid file succeeded the second reports "not running"
\* and no pid record is left; when it held other text both stops fail with
\* PidCorrupt and the record stays.
C2_StopTwice ==
    StopTwice =>
        /\ last.prev.preKind \in {"absent", "int"} =>
              /\ last.prev.res = "ok" /\ last.res = "ok"
              /\ ~last.prev.postExists =>
                    "not running" \in last.msgs /\ ~last.postExists
        /\ last.prev.preKind = "corrupt" =>
              /\ last.prev.res = "PidCorrupt" /\ last.res = "PidCorrupt"
              /\ last.postExists

\* the second stop after a first one that found a pid and removed the record
C2_Witness ==
    /\ StopTwice
    /\ last.prev.preKind = "int" /\ ~last.prev.postExists
    /\ last.res = "ok" /\ "not running" \in last.msgs /\ ~last.postExists

\* a stop that returned, having found text that parses as an integer
StoppedWithPid == last.cmd = "stop" /\ last.pidv.some /\ ParseI32(last.pidv.v).ok

\* C3 as claimed: a stop that finds an integer signals that pid, returns
\* success whether or not the signal is delivered, reports a failed delivery
\* as "not running", and the pid record is removed.
C3_StopRemovesRecord ==
    StoppedWithPid =>
        /\ last.sig.sent /\ last.sig.pid = ParseI32(last.pidv.v).v
        /\ last.res = "ok"
        /\ ~last.sig.ok => "not running" \in last.msgs
        /\ ~last.postExists

\* C3, amended: a stop that finds an integer signals that pid, returns
\* success whether or not the signal is delivered, reports a failed delivery
\* as "not running", and tries to remove the pid record: the record is gone
\* unless the removal itself fails, which is ignored.
C3_StopSignalsAndCleans ==
    StoppedWithPid =>
        /\ last.sig.sent /\ last.sig.pid = ParseI32(last.pidv.v).v
        /\ last.res = "ok"
        /\ ~last.sig.ok => "not running" \in last.msgs
        /\ last.rm \in {"ok", "err"}
        /\ last.rm = "ok" => ~last.postExists

\* a stop whose signal found no process: success, "not running", record gone
C3_Witness ==
    /\ StoppedWithPid
    /\ last.sig.sent /\ ~last.sig.ok
    /\ last.res = "ok" /\ "not running" \in last.msgs
    /\ last.rm = "ok" /\ ~last.postExists

\* C4: a stop that finds text that does not parse as an integer fails with
\* PidCorrupt and sends no signal; no invocation signals without a parsed pid.
C4_CorruptPidFails ==
    /\ (last.cmd = "stop" /\ last.pidv.some /\ ~ParseI32(last.pidv.v).ok) =>
          /\ last.res = "PidCorrupt"
          /\ ~last.sig.sent
          /\ last.postExists
    /\ \A p \in Procs :
          inv[p].pc \in {"stop_kill", "stop_rm"} =>
              inv[p].pidv.some /\ ParseI32(inv[p].pidv.v).ok

\* a stop on a pid file holding "7x"
C4_Witness ==
    /\ last.cmd = "stop" /\ last.res = "PidCorrupt"
    /\ last.pidv = Some(<<"7", "x">>)
    /\ pending = {}

\* C5 as claimed: the launcher is built and run only by the detached child;
\* a process whose detach did not succeed never runs the service.
C5_OnlyDetachedChildLaunches ==
    /\ \A p \in Procs : inv[p].launched => inv[p].detached
    /\ last.launched => last.detached

\* C7: in a restart, once stop has returned success (signal delivered, no
\* pid recorded, or delivery failed) start is run, with the arguments given.
C7_RestartRunsStart ==
    /\ \A p \in Procs :
          (inv[p].cmd = "restart" /\ inv[p].stopRet = "ok") =>
              /\ inv[p].startRan \/ inv[p].pc = "start_root"
              /\ inv[p].pc = "start_root" => inv[p].args = inv[p].args0
    /\ (last.cmd = "restart" /\ last.stopRet = "ok") => last.startRan

\* a restart whose stop could not deliver the signal and whose start detached
C7_Witness ==
    /\ last.cmd = "restart" /\ last.stopRet = "ok"
    /\ last.sig.sent /\ ~last.sig.ok /\ "not running" \in last.msgs
    /\ last.startRan /\ last.detached

\* C8: status succeeds, changes nothing, and reports running with the
\* recorded content exactly when the pid file exists, not running otherwise.
C8_StatusReadsRegistry ==
    [][\A p \in Procs :
        StepsAt(p, "status") =>
            /\ UNCHANGED shared
            /\ last'.cmd = "status" /\ last'.res = "ok"
            /\ pidFile.exists =>
                  last'.msgs = {"running"} /\ last'.pidv = Some(pidFile.content)
            /\ ~pidFile.exists =>
                  last'.msgs = {"not running"} /\ ~last'.pidv.some]_vars

\* status reporting running for a recorded pid that no live process has
C8_Witness ==
    /\ last.cmd = "status" /\ last.res = "ok" /\ last.msgs = {"running"}
    /\ ParseI32(last.pidv.v).ok
    /\ ParseI32(last.pidv.v).v \notin alive

\* C9: a start that fails to create the pid file or a redirect file ends
\* there: it has tried no detach and launched nothing, and no invocation goes
\* on after such a failure.
C9_CreateFailureAborts ==
    /\ \A p \in Procs : inv[p].createFailed = "none"
    /\ last.createFailed # "none" =>
          /\ last.res = "panic"
          /\ ~last.detachTried /\ ~last.detached /\ ~last.launched
    /\ last.res = "FileSystemError" =>
          ~last.detachTried /\ ~last.detached /\ ~last.launched

\* a start that created the pid file and stdout and failed on stderr
C9_Witness ==
    /\ last.cmd = "start" /\ last.createFailed = "stderr" /\ last.res = "panic"
    /\ pidFile.exists /\ outFile.exists /\ ~errFile.exists
    /\ ~last.detachTried

\* a start or a stop run by a caller without root privilege
Unprivileged(r) == r.cmd \in {"start", "stop"} /\ ~r.root

\* C13: start and stop begin with the privilege check, and the only step an
\* unprivileged start or stop takes is that check: it returns
\* PermissionDenied having read no pid, created or removed no file, sent no
\* signal and tried no detach, the shared files and processes unchanged.
C13_PrivilegeCheckedFirst ==
    [][\A p \in Procs :
        /\ (inv[p].pc = "idle" /\ inv'[p].cmd \in {"start", "stop"}) =>
              /\ inv'[p].pc = IF inv'[p].cmd = "start" THEN "start_root" ELSE "stop_root"
              /\ UNCHANGED shared
        /\ (Unprivileged(inv[p]) /\ inv'[p] # inv[p]) =>
              /\ inv[p].pc \in {"start_root", "stop_root"}
              /\ UNCHANGED shared
              /\ inv'[p] = IdleRec
              /\ last'.res = "PermissionDenied"
              /\ ~last'.pidv.some /\ ~last'.sig.sent /\ last'.rm = "none"
              /\ last'.createFailed = "none"
              /\ ~last'.detachTried /\ ~last'.launched]_vars

\* an unprivileged stop, a detached child being alive and recorded
C13_Witness ==
    /\ last.cmd = "stop" /\ ~last.root /\ last.res = "PermissionDenied"
    /\ ~last.sig.sent /\ ~last.pidv.some
    /\ \E pid \in alive : pidFile.exists /\ pidFile.content = ToDec(pid)
    /\ pending = {}

\* C16 as claimed: when a start is at the detach, the pid file and the two
\* redirect files exist and each has mode 0755.
C16_ThreeFilesExecutable ==
    \A p \in Procs :
        inv[p].pc = "start_detach" =>
            /\ pidFile.exists /\ pidFile.mode = Mode0755
            /\ outFile.exists /\ outFile.mode = Mode0755
            /\ errFile.exists /\ errFile.mode = Mode0755

\* C17 as claimed: a start past the look at SUDO_USER has a target user and
\* group exactly when the variable names a known user, and in every other
\* case, the variable unset or naming no known user, has printed a warning.
C17_WarnsWhenUserUnknown ==
    \A p \in Procs :
        inv[p].pc \in {"start_fix", "start_detach"} =>
            /\ inv[p].dropUser <=> inv[p].sudoUser = "known"
            /\ inv[p].sudoUser # "known" =>
                  "could not interpret SUDO_USER" \in inv[p].msgs

\* every path the arguments give is absolute
PathsAbsolute(args) ==
    \A k \in {"config", "tls_cert", "tls_key"} : args[k].some => args[k].abs

\* C18 as claimed: the paths are made absolute before the detach, and the
\* detached child, which resolves its configuration without normalizing,
\* never works with a relative certificate, key or configuration path.
C18_NoRelativePathAfterDetach ==
    /\ \A p \in Procs :
          inv[p].pc \in {"start_detach", "serve", "running"} => PathsAbsolute(inv[p].args)
    /\ \A pid \in Pids :
          daemon[pid].st \in {"serve", "running"} => PathsAbsolute(daemon[pid].args)

\* C20: only the removal step of a stop makes the pid file go away; the
\* end of a detached child, for whatever reason, and the steps of a start
\* that runs the service itself leave the pid file as it is; and as long as
\* the file exists status reports running and start reports "already
\* running" and changes nothing, whether or not a service is up.
C20_OnlyStopClearsRecord ==
    [][/\ (pidFile.exists /\ ~pidFile'.exists) => \E p \in Procs : StepsAt(p, "stop_rm")
       /\ \A pid \in Pids :
             (daemon[pid].st # "none" /\ daemon'[pid].st = "none") => pidFile' = pidFile
       /\ \A p \in Procs :
             (inv[p].pc \in {"serve", "running"} /\ inv'[p] # inv[p]) => pidFile' = pidFile
       /\ \A p \in Procs :
             (StepsAt(p, "status") /\ pidFile.exists) => "running" \in last'.msgs
       /\ \A p \in Procs :
             (StepsAt(p, "start_getpid") /\ pidFile.exists) =>
                 "already running" \in last'.msgs /\ UNCHANGED shared]_vars

\* a start reporting "already running" on the record of a detached child
\* that ended on its configuration file, no service being up
C20_Witness ==
    /\ last.cmd = "start" /\ last.res = "ok" /\ "already running" \in last.msgs
    /\ alive = {}
    /\ \A p \in Procs : inv[p].pc = "idle"
    /\ pidFile.exists /\ pidFile.locker \in Pids
    /\ last.pidv = Some(ToDec(pidFile.locker))
    /\ daemon[pidFile.locker].end \in {"ConfigIO", "ConfigDecode"}

-----------------------------------------------------------------------------
(* Properties of concurrent starts, checked under SpecRace.                *)

\* C15: a start that saw no pid recorded creates the pid file whether or not
\* another start has created it in the meantime: its create step does not
\* look at the file, so it goes on with the file truncated and set to 0755,
\* or ends on a failed system call, and never on "already running".
C15_CreateIsNoGate ==
    [][\A p \in Procs :
        StepsAt(p, "start_pidfile") =>
            /\ ~inv[p].pidv.some
            /\ \/ /\ inv'[p].pc = "start_stdout"
                  /\ inv'[p].raced = pidFile.exists
                  /\ pidFile'.exists /\ pidFile'.content = <<>>
                  /\ pidFile'.mode = Mode0755
               \/ /\ inv'[p] = IdleRec
                  /\ last'.res \in {"panic", "FileSystemError"}
                  /\ "already running" \notin last'.msgs]_vars

\* both starts saw no pid recorded; the child of one runs the service, and
\* the other, having created the pid file over the first one's, reached the
\* detach and runs the service as well
C15_Witness ==
    /\ \E pid \in Pids : daemon[pid].st = "running"
    /\ \E p \in Procs :
          /\ inv[p].cmd = "start" /\ ~inv[p].pidv.some
          /\ inv[p].raced /\ inv[p].detachTried /\ inv[p].launched
          /\ inv[p].pc = "running"

-----------------------------------------------------------------------------
(* Properties of the foreground commands, checked under SpecConfig.        *)

\* C6 as claimed: generate_template without overwrite leaves the directory
\* tree as it found it.
C6_NoOverwriteTouchesNothing ==
    (fg.cmd = "generate_template" /\ ~fg.cover /\ fg.pc = "done") => fs = fg.fs0

\* the document in the configuration file a foreground serve was given
GivenDoc == ReadFile(fg.fs0, fg.args.config.p).doc

\* C10: a serve given a configuration file configures the launcher from the
\* file alone: a field the file gives has the file's value, a field it does
\* not give has its default, whatever the command line gave.
C10_FileReplacesCli ==
    (fg.cmd = "serve" /\ fg.launched /\ fg.args.config.some) =>
        /\ fg.cfg.port = IF HasKey(GivenDoc, "port")
                         THEN DecValue(LineOf(GivenDoc, "port").s, 0)
                         ELSE DefaultPort
        /\ fg.cfg.host = IF HasKey(GivenDoc, "host")
                         THEN LineOf(GivenDoc, "host").s
                         ELSE Host0000
        /\ fg.cfg.tls.some <=> (HasKey(GivenDoc, "tls_cert") /\ HasKey(GivenDoc, "tls_key"))

\* port 8000 and a host on the command line, port 9000 and no host in the file
C10_Witness ==
    /\ fg.cmd = "serve" /\ fg.launched /\ fg.args.config.some
    /\ fg.args.port.some /\ fg.args.port.v = DecValue(Port8000, 0)
    /\ fg.args.host.some /\ fg.args.host.v = Host127
    /\ fg.cfg.port = DecValue(Port9000, 0)
    /\ fg.cfg.host = Host0000

\* whether the arguments in effect, after a configuration file has replaced
\* the command line's, give the path named k
Supplied(k) ==
    IF fg.args.config.some THEN HasKey(GivenDoc, k) ELSE fg.args[k].some

\* C11: the launcher's TLS pair is present exactly when both a certificate
\* and a key were supplied, and then holds both paths; with one of the two,
\* or none, the pair is absent and holds no path.
C11_TlsPairWholeOrAbsent ==
    (fg.cmd = "serve" /\ fg.launched) =>
        /\ fg.cfg.tls.some <=> (Supplied("tls_cert") /\ Supplied("tls_key"))
        /\ fg.cfg.tls.some => fg.cfg.tls.cert.some /\ fg.cfg.tls.key.some
        /\ ~fg.cfg.tls.some => fg.cfg.tls = NoTls

\* a serve given a certificate and no key, launched without TLS
C11_Witness ==
    /\ fg.cmd = "serve" /\ fg.launched
    /\ Supplied("tls_cert") /\ ~Supplied("tls_key")
    /\ fg.cfg.tls = NoTls

\* a generate_template whose target names a directory of the tree it found
TargetIsDir ==
    fg.cmd = "generate_template" /\ fg.out.some /\ IsDir(fg.fs0, fg.out.p)

\* C12: generate_template on a target that names an existing directory
\* fails with TargetIsDirectory in its first step, with and without
\* overwrite, and leaves the tree as it found it.
C12_DirectoryTargetFails ==
    TargetIsDir =>
        /\ fg.pc \in {"gt_resolve", "done"}
        /\ fg.pc = "done" => fg.res = "TargetIsDirectory"
        /\ fs = fg.fs0

\* overwrite asked for, the target being the directory d/e
C12_Witness ==
    /\ TargetIsDir /\ fg.cover /\ fg.out.p = <<"d", "e">>
    /\ fg.pc = "done" /\ fg.res = "TargetIsDirectory"
    /\ fs = fg.fs0

\* a serve given as its configuration file the file the command before it,
\* a generate_template with overwrite, wrote
RoundTrip ==
    /\ fg.cmd = "serve" /\ fg.pc \in {"sv_running", "done"}
    /\ fg.prev.wrote /\ fg.args.config.some /\ fg.args.config.p = fg.prev.target

\* C14: a serve given the file a generate_template with overwrite has just
\* written resolves its configuration without error, whatever the file held
\* before and whatever the command line gives, and hands the launcher the
\* documented defaults; the keys the template comments out stay unset.
C14_TemplateRoundTrip ==
    RoundTrip =>
        /\ fg.res \notin {"ConfigIO", "ConfigDecode"}
        /\ fg.launched
        /\ fg.cfg.host = Host0000
        /\ fg.cfg.port = 7999
        /\ fg.cfg.workers = [some |-> TRUE, v |-> 1]
        /\ fg.cfg.tb_capacity = [some |-> TRUE, v |-> 60]
        /\ fg.cfg.tb_fill_rate = [some |-> TRUE, v |-> 1]
        /\ fg.cfg.tb_expired = [some |-> TRUE, v |-> 86400]
        /\ fg.cfg.tb_store_strategy = [some |-> TRUE, v |-> <<"m", "e", "m">>]
        /\ fg.cfg.tls = NoTls

\* the round trip over a file that held port 9000, with port 8000 and a
\* host on the command line
C14_Witness ==
    /\ RoundTrip /\ fg.launched
    /\ fg.prev.before = FileNode(Text(DocPort))
    /\ fg.args.port.some /\ fg.args.host.some
    /\ fg.cfg.port = 7999 /\ fg.cfg.workers = [some |-> TRUE, v |-> 1]

-----------------------------------------------------------------------------
(* Properties of serve_log, checked under SpecLog.                         *)

\* C19 as claimed: once the log is open the tail comes to its end and
\* returns success, having emitted the readable lines in file order and
\* reported each line it could not read once, whatever the reads give.
C19_TailTerminates ==
    (log.pc = "reading") ~>
        /\ log.pc = "done" /\ log.res = "ok"
        /\ log.out = Readable(log.file.lines)
        /\ log.errs + Len(log.out) = Len(log.file.lines)

====
